---- MODULE Spec2Model ----
(***************************************************************************)
(* The read-only query firewall and execution gateway of the two MCP       *)
(* servers: src/app.py (Postgres) and src/sqlserv.py (SQL Server).         *)
(*                                                                         *)
(* Texts are sequences of one-character strings, so that strip, upper,     *)
(* startswith, "in", rstrip and replace are computed character by          *)
(* character as Python computes them (ASCII alphabet).                     *)
(***************************************************************************)
EXTENDS Integers, Sequences, FiniteSets, TLC

VARIABLES
    backend,   \* which server process this is: "postgres" (app.py) or "tsql" (sqlserv.py)
    pc,        \* pc[c]: position of invocation c inside execute_query
    input,     \* input[c]: the query text the caller passed
    query,     \* query[c]: the local variable `query` (rebound by enforce_limit)
    conn,      \* conn[c]: the local `conn`: "unbound", "open" or "closed"
    cur,       \* cur[c]: the local `cur`: "unbound", "open" or "closed"
    rows,      \* rows[c]: the local `rows` after fetchall
    ret,       \* ret[c]: the pending / final return value, or NoRet
    escaped,   \* escaped[c]: TRUE when an exception left execute_query
    events     \* events[c]: what invocation c did to the driver, in order

vars == <<backend, pc, input, query, conn, cur, rows, ret, escaped, events>>

-----------------------------------------------------------------------------
(* Bounds *)

\* number of execute_query invocations that may be in progress together
NumCalls == 2
\* caller texts of the function-level specification: up to MaxWords fragments
MaxWords == 3

-----------------------------------------------------------------------------
(* Character data *)

Lower == <<"a","b","c","d","e","f","g","h","i","j","k","l","m","n","o","p","q","r","s","t","u","v","w","x","y","z">>
Upper == <<"A","B","C","D","E","F","G","H","I","J","K","L","M","N","O","P","Q","R","S","T","U","V","W","X","Y","Z">>
Digits == <<"0","1","2","3","4","5","6","7","8","9">>
\* the characters str.strip() removes (ASCII)
Whitespace == {" ", "\t", "\n", "\r", "\f"}

\* "SELECT", "WITH", "SHOW", "EXPLAIN"
KW_SELECT == <<"S","E","L","E","C","T">>
KW_WITH == <<"W","I","T","H">>
KW_SHOW == <<"S","H","O","W">>
KW_EXPLAIN == <<"E","X","P","L","A","I","N">>
AllowedPrefixes == {KW_SELECT, KW_WITH, KW_SHOW, KW_EXPLAIN}
\* "LIMIT", "TOP"
KW_LIMIT == <<"L","I","M","I","T">>
KW_TOP == <<"T","O","P">>

W_DROP == <<"D","R","O","P">>
W_DELETE == <<"D","E","L","E","T","E">>
W_TRUNCATE == <<"T","R","U","N","C","A","T","E">>
W_ALTER == <<"A","L","T","E","R">>
W_UPDATE == <<"U","P","D","A","T","E">>
W_INSERT == <<"I","N","S","E","R","T">>
W_CREATE == <<"C","R","E","A","T","E">>
W_GRANT == <<"G","R","A","N","T">>
W_REVOKE == <<"R","E","V","O","K","E">>
W_VACUUM == <<"V","A","C","U","U","M">>
W_BACKUP == <<"B","A","C","K","U","P">>
W_RESTORE == <<"R","E","S","T","O","R","E">>

DANGEROUS_SQL(b) ==
    IF b = "postgres"
    THEN {W_DROP, W_DELETE, W_TRUNCATE, W_ALTER, W_UPDATE, W_INSERT, W_CREATE,
          W_GRANT, W_REVOKE, W_VACUUM}
    ELSE {W_DROP, W_DELETE, W_TRUNCATE, W_ALTER, W_UPDATE, W_INSERT, W_CREATE,
          W_GRANT, W_REVOKE, W_BACKUP, W_RESTORE}

MAX_ROWS == 1000

\* "Only read-only queries allowed"
MsgReadOnly == <<"O","n","l","y"," ","r","e","a","d","-","o","n","l","y"," ","q","u","e","r","i","e","s"," ","a","l","l","o","w","e","d">>
\* "Blocked keyword: "
MsgBlockedKeyword == <<"B","l","o","c","k","e","d"," ","k","e","y","w","o","r","d",":"," ">>
\* "Blocked: "
PrefixBlocked == <<"B","l","o","c","k","e","d",":"," ">>
\* "Internal error: "
PrefixInternal == <<"I","n","t","e","r","n","a","l"," ","e","r","r","o","r",":"," ">>
\* "No results"
NoResults == <<"N","o"," ","r","e","s","u","l","t","s">>
\* " LIMIT "
LimitHead == <<" ","L","I","M","I","T"," ">>
\* "SELECT TOP "
SelectTopHead == <<"S","E","L","E","C","T"," ","T","O","P"," ">>
\* "SET statement_timeout = 3000"
PgTimeoutStatement == <<"S","E","T"," ","s","t","a","t","e","m","e","n","t","_","t","i","m","e","o","u","t"," ","="," ","3","0","0","0">>
\* "SET LOCK_TIMEOUT 30000"
TsqlTimeoutStatement == <<"S","E","T"," ","L","O","C","K","_","T","I","M","E","O","U","T"," ","3","0","0","0","0">>

-----------------------------------------------------------------------------
(* Python's string operations *)

\* lower-case letter -> upper-case letter
UpperOf ==
    [ch \in {Lower[i] : i \in 1..Len(Lower)} |->
        Upper[CHOOSE i \in 1..Len(Lower) : Lower[i] = ch]]

UpperChar(ch) == IF ch \in DOMAIN UpperOf THEN UpperOf[ch] ELSE ch

\* str.upper()
upper(s) == [i \in 1..Len(s) |-> UpperChar(s[i])]

\* str.lstrip(chars): every leading character that is in chars is removed
RECURSIVE lstrip(_, _)
lstrip(s, chars) ==
    IF Len(s) > 0 /\ s[1] \in chars THEN lstrip(Tail(s), chars) ELSE s

\* str.rstrip(chars): every trailing character that is in chars is removed
RECURSIVE rstrip(_, _)
rstrip(s, chars) ==
    IF Len(s) > 0 /\ s[Len(s)] \in chars
    THEN rstrip(SubSeq(s, 1, Len(s) - 1), chars)
    ELSE s

\* str.strip()
strip(s) == rstrip(lstrip(s, Whitespace), Whitespace)

\* sub occurs in s at position i
OccursAt(s, sub, i) == \A j \in 1..Len(sub) : s[i + j - 1] = sub[j]

\* str.startswith(p)
startswith(s, p) == Len(p) <= Len(s) /\ OccursAt(s, p, 1)

\* `sub in s`
Contains(s, sub) == \E i \in 1..(Len(s) - Len(sub) + 1) : OccursAt(s, sub, i)

\* str.find(sub, i - 1) + 1: the first position >= i at which sub occurs in
\* s, 0 when there is none
RECURSIVE find(_, _, _)
find(s, sub, i) ==
    IF i + Len(sub) - 1 > Len(s) THEN 0
    ELSE IF OccursAt(s, sub, i) THEN i
    ELSE find(s, sub, i + 1)

\* str.replace(old, new, 1): the first occurrence only, letter case respected
replace_first(s, old, new) ==
    LET i == find(s, old, 1)
    IN  IF i = 0 THEN s
        ELSE SubSeq(s, 1, i - 1) \o new \o SubSeq(s, i + Len(old), Len(s))

\* str(n) of a non-negative integer, as an f-string renders it
RECURSIVE IntToStr(_)
IntToStr(n) ==
    IF n < 10 THEN <<Digits[n + 1]>>
    ELSE IntToStr(n \div 10) \o <<Digits[(n % 10) + 1]>>

-----------------------------------------------------------------------------
(* The validator and the limit normalizer *)

\* validate_query checking whole tokens instead of substrings
validate_query_tokens(b, q) ==
    LET u == upper(strip(q))
        IsWordChar(ch) == \E i \in 1..Len(Upper) : Upper[i] = ch \/ ch = "_"
        Token(w) == \E i \in 1..(Len(u) - Len(w) + 1) :
                       /\ OccursAt(u, w, i)
                       /\ (i = 1 \/ ~IsWordChar(u[i - 1]))
                       /\ (i + Len(w) > Len(u) \/ ~IsWordChar(u[i + Len(w)]))
    IN  IF ~\E p \in AllowedPrefixes : startswith(u, p)
        THEN {MsgReadOnly}
        ELSE {MsgBlockedKeyword \o w : w \in {w \in DANGEROUS_SQL(b) : Token(w)}}

\* validate_query scanning for blocked keywords before the prefix check
validate_query_keywords_first(b, q) ==
    LET u == upper(strip(q))
        hits == {w \in DANGEROUS_SQL(b) : Contains(u, w)}
    IN  IF hits # {}
        THEN {MsgBlockedKeyword \o w : w \in hits}
        ELSE IF ~\E p \in AllowedPrefixes : startswith(u, p)
             THEN {MsgReadOnly}
             ELSE {}

\* The messages of the ValueError validate_query(q) may raise; {} when it
\* returns normally.  DANGEROUS_SQL is a Python set of str, whose iteration
\* order is not fixed, so any blocked keyword occurring in q may be the one
\* reported.
validate_query(b, q) ==
    LET u == upper(strip(q))
    IN  IF ~\E p \in AllowedPrefixes : startswith(u, p)
        THEN {MsgReadOnly}
        ELSE {MsgBlockedKeyword \o w : w \in {w \in DANGEROUS_SQL(b) : Contains(u, w)}}

\* enforce_limit without the `"LIMIT" not in query.upper()` guard
enforce_limit_pg_unguarded(q) == rstrip(q, {";"}) \o LimitHead \o IntToStr(MAX_ROWS)

\* enforce_limit stripping one trailing ";" only
enforce_limit_pg_strip_one(q) ==
    IF ~Contains(upper(q), KW_LIMIT)
    THEN (IF Len(q) > 0 /\ q[Len(q)] = ";" THEN SubSeq(q, 1, Len(q) - 1) ELSE q)
         \o LimitHead \o IntToStr(MAX_ROWS)
    ELSE q

\* app.py enforce_limit
enforce_limit_pg(q) ==
    IF ~Contains(upper(q), KW_LIMIT)
    THEN rstrip(q, {";"}) \o LimitHead \o IntToStr(MAX_ROWS)
    ELSE q

\* sqlserv.py enforce_limit
enforce_limit_tsql(q) ==
    LET q_upper == upper(q)
    IN  IF ~Contains(q_upper, KW_TOP) /\ Contains(q_upper, KW_SELECT)
        THEN replace_first(q, KW_SELECT, SelectTopHead \o IntToStr(MAX_ROWS))
        ELSE q

enforce_limit(b, q) == IF b = "postgres" THEN enforce_limit_pg(q) ELSE enforce_limit_tsql(q)

\* the statement execute_query issues before the caller's query
TimeoutStatement(b) ==
    IF b = "postgres" THEN PgTimeoutStatement ELSE TsqlTimeoutStatement

-----------------------------------------------------------------------------
(* Caller inputs *)

\* "SELECT name FROM employees"
ExSelectName == <<"S","E","L","E","C","T"," ","n","a","m","e"," ","F","R","O","M"," ","e","m","p","l","o","y","e","e","s">>
\* "DROP TABLE users;"
ExDropTable == <<"D","R","O","P"," ","T","A","B","L","E"," ","u","s","e","r","s",";">>
\* "SELECT * FROM t LIMIT 5"
ExLimit5 == <<"S","E","L","E","C","T"," ","*"," ","F","R","O","M"," ","t"," ","L","I","M","I","T"," ","5">>
\* "SELECT updated_at FROM t"
ExUpdatedAt == <<"S","E","L","E","C","T"," ","u","p","d","a","t","e","d","_","a","t"," ","F","R","O","M"," ","t">>
\* "SELECT * FROM t"
ExSelectStar == <<"S","E","L","E","C","T"," ","*"," ","F","R","O","M"," ","t">>
\* "SELECT 1;;"
ExTwoTerminators == <<"S","E","L","E","C","T"," ","1",";",";">>
Examples == {ExSelectName, ExDropTable, ExLimit5, ExUpdatedAt, ExSelectStar, ExTwoTerminators}

\* "SELECT ", "select ", "WITH ", ";", " ", "limit 5", "TOP 5 ",
\* "updated_at ", "vacuum "
Fragments ==
    { <<"S","E","L","E","C","T"," ">>, <<"s","e","l","e","c","t"," ">>,
      <<"W","I","T","H"," ">>, <<";">>, <<" ">>,
      <<"l","i","m","i","t"," ","5">>, <<"T","O","P"," ","5"," ">>,
      <<"u","p","d","a","t","e","d","_","a","t"," ">>,
      <<"v","a","c","u","u","m"," ">> }

RECURSIVE WordTexts(_)
WordTexts(n) ==
    IF n = 0 THEN {<<>>}
    ELSE LET shorter == WordTexts(n - 1)
         IN  shorter \cup {t \o f : t \in shorter, f \in Fragments}

\* the texts of the function-level specification
Texts == WordTexts(MaxWords) \cup Examples

\* the texts of the gateway specification: one accepted, one rejected on its
\* prefix, one rejected on a blocked keyword
GatewayTexts == {ExSelectName, ExDropTable, ExUpdatedAt}

-----------------------------------------------------------------------------
(* The environment: the database driver *)

Backends == {"postgres", "tsql"}

\* "driver failure": str(e) of an exception the driver raises
DriverMsg == <<"d","r","i","v","e","r"," ","f","a","i","l","u","r","e">>

\* A driver call may raise any exception class: "ValueError" stands for
\* ValueError and its subclasses (UnicodeEncodeError, ...), "Exception" for
\* every other subclass of Exception.
ExcTypes == {"ValueError", "Exception"}

\* what fetchall may return: rows of one column "c"
RowSets == {<<>>, <<1>>}

NoRet == [set |-> FALSE, text |-> <<>>]
Returning(t) == [set |-> TRUE, text |-> t]

\* one step of an invocation: the operation, the exception class it raised
\* ("none" when it returned), and the text it was given
Event(op, raised, arg) == [op |-> op, raised |-> raised, arg |-> arg]

\* "{'c': " and "}": str(dict(zip(cols, r))) of a one-column row
RowOpen == <<"{","'","c","'",":"," ">>
RowClose == <<"}">>
RowText(r) == RowOpen \o IntToStr(r) \o RowClose

\* "\n".join(str(dict(zip(cols, r))) for r in rows)
RECURSIVE JoinRows(_)
JoinRows(rs) ==
    IF Len(rs) = 0 THEN <<>>
    ELSE IF Len(rs) = 1 THEN RowText(rs[1])
    ELSE RowText(rs[1]) \o <<"\n">> \o JoinRows(Tail(rs))

-----------------------------------------------------------------------------
(* execute_query, one step per statement of its try block *)

Calls == DOMAIN pc

Log(c, e) == events' = [events EXCEPT ![c] = Append(@, e)]

\* the except clauses, tried in order: the text execute_query will return for
\* an exception of class t whose str() is msg
ExceptClauses(t, msg) ==
    IF t = "ValueError" THEN PrefixBlocked \o msg
    ELSE PrefixInternal \o msg

\* a statement of the try block raises an exception of class t: the matching
\* except clause sets the return value and control goes to the finally block
Raise(c, op, arg, t, msg) ==
    /\ ret' = [ret EXCEPT ![c] = Returning(ExceptClauses(t, msg))]
    /\ pc' = [pc EXCEPT ![c] = "finally"]
    /\ Log(c, Event(op, t, arg))

\* a driver call fails
DriverRaise(c, op, arg) == \E t \in ExcTypes : Raise(c, op, arg, t, DriverMsg)

\* the tool is invoked with text q
Call(c, q) ==
    /\ pc[c] = "idle"
    /\ pc' = [pc EXCEPT ![c] = "validate"]
    /\ input' = [input EXCEPT ![c] = q]
    /\ query' = [query EXCEPT ![c] = q]
    /\ UNCHANGED <<backend, conn, cur, rows, ret, escaped, events>>

\* a validate_query call that lets every text through
Validate_accept_all(c) ==
    /\ pc[c] = "validate"
    /\ pc' = [pc EXCEPT ![c] = "normalize"]
    /\ Log(c, Event("validate_query", "none", query[c]))
    /\ UNCHANGED <<backend, input, query, conn, cur, rows, ret, escaped>>

\* validate_query(query)
Validate(c) ==
    /\ pc[c] = "validate"
    /\ LET errs == validate_query(backend, query[c])
       IN  \/ /\ errs = {}
              /\ pc' = [pc EXCEPT ![c] = "normalize"]
              /\ Log(c, Event("validate_query", "none", query[c]))
              /\ ret' = ret
           \/ \E m \in errs : Raise(c, "validate_query", query[c], "ValueError", m)
    /\ UNCHANGED <<backend, input, query, conn, cur, rows, escaped>>

\* query = enforce_limit(query)
Normalize(c) ==
    /\ pc[c] = "normalize"
    /\ query' = [query EXCEPT ![c] = enforce_limit(backend, query[c])]
    /\ pc' = [pc EXCEPT ![c] = "connect"]
    /\ Log(c, Event("enforce_limit", "none", query[c]))
    /\ UNCHANGED <<backend, input, conn, cur, rows, ret, escaped>>

\* conn = connect()
Connect(c) ==
    /\ pc[c] = "connect"
    /\ \/ /\ conn' = [conn EXCEPT ![c] = "open"]
          /\ pc' = [pc EXCEPT ![c] = "cursor"]
          /\ Log(c, Event("connect", "none", <<>>))
          /\ ret' = ret
       \/ /\ DriverRaise(c, "connect", <<>>)
          /\ conn' = conn
    /\ UNCHANGED <<backend, input, query, cur, rows, escaped>>

\* cur = conn.cursor()
Cursor(c) ==
    /\ pc[c] = "cursor"
    /\ \/ /\ cur' = [cur EXCEPT ![c] = "open"]
          /\ pc' = [pc EXCEPT ![c] = "timeout"]
          /\ Log(c, Event("cursor", "none", <<>>))
          /\ ret' = ret
       \/ /\ DriverRaise(c, "cursor", <<>>)
          /\ cur' = cur
    /\ UNCHANGED <<backend, input, query, conn, rows, escaped>>

\* the timeout statement with its failure swallowed
SetTimeout_ignore_failure(c) ==
    /\ pc[c] = "timeout"
    /\ pc' = [pc EXCEPT ![c] = "execute"]
    /\ \E r \in ExcTypes \cup {"none"} :
          Log(c, Event("execute", r, TimeoutStatement(backend)))
    /\ UNCHANGED <<backend, input, query, conn, cur, rows, ret, escaped>>

\* cur.execute("SET statement_timeout = 3000") / cur.execute("SET LOCK_TIMEOUT 30000")
SetTimeout(c) ==
    /\ pc[c] = "timeout"
    /\ \/ /\ pc' = [pc EXCEPT ![c] = "execute"]
          /\ Log(c, Event("execute", "none", TimeoutStatement(backend)))
          /\ ret' = ret
       \/ DriverRaise(c, "execute", TimeoutStatement(backend))
    /\ UNCHANGED <<backend, input, query, conn, cur, rows, escaped>>

\* cur.execute(query)
Execute(c) ==
    /\ pc[c] = "execute"
    /\ \/ /\ pc' = [pc EXCEPT ![c] = "fetch"]
          /\ Log(c, Event("execute", "none", query[c]))
          /\ ret' = ret
       \/ DriverRaise(c, "execute", query[c])
    /\ UNCHANGED <<backend, input, query, conn, cur, rows, escaped>>

\* rows = cur.fetchall(); if not rows: return "No results"
Fetch(c) ==
    /\ pc[c] = "fetch"
    /\ \/ \E rs \in RowSets :
          /\ rows' = [rows EXCEPT ![c] = rs]
          /\ IF rs = <<>>
             THEN /\ ret' = [ret EXCEPT ![c] = Returning(NoResults)]
                  /\ pc' = [pc EXCEPT ![c] = "finally"]
             ELSE /\ ret' = ret
                  /\ pc' = [pc EXCEPT ![c] = "format"]
          /\ Log(c, Event("fetchall", "none", <<>>))
       \/ /\ DriverRaise(c, "fetchall", <<>>)
          /\ rows' = rows
    /\ UNCHANGED <<backend, input, query, conn, cur, escaped>>

\* cols = [...]; return "\n".join(...)
Format(c) ==
    /\ pc[c] = "format"
    /\ \/ /\ ret' = [ret EXCEPT ![c] = Returning(JoinRows(rows[c]))]
          /\ pc' = [pc EXCEPT ![c] = "finally"]
          /\ Log(c, Event("format", "none", <<>>))
       \/ DriverRaise(c, "format", <<>>)
    /\ UNCHANGED <<backend, input, query, conn, cur, rows, escaped>>

\* a close call of the finally block raises: no handler encloses it, so the
\* pending return value is dropped, the rest of the block is skipped and the
\* exception leaves execute_query
RaiseInFinally(c, evs) ==
    /\ ret' = [ret EXCEPT ![c] = NoRet]
    /\ escaped' = [escaped EXCEPT ![c] = TRUE]
    /\ events' = [events EXCEPT ![c] = @ \o evs]

\* finally: if "cur" in locals(): cur.close()
\*          if "conn" in locals(): conn.close()
\* and then the return of the pending value
Finally(c) ==
    /\ pc[c] = "finally"
    /\ pc' = [pc EXCEPT ![c] = "done"]
    /\ \/ /\ cur[c] = "unbound" /\ conn[c] = "unbound"
          /\ UNCHANGED <<cur, conn, ret, escaped, events>>
       \/ /\ cur[c] = "unbound" /\ conn[c] # "unbound"
          /\ conn' = [conn EXCEPT ![c] = "closed"]
          /\ Log(c, Event("conn.close", "none", <<>>))
          /\ UNCHANGED <<cur, ret, escaped>>
       \/ /\ cur[c] = "unbound" /\ conn[c] # "unbound"
          /\ RaiseInFinally(c, <<Event("conn.close", "Exception", <<>>)>>)
          /\ UNCHANGED <<cur, conn>>
       \/ /\ cur[c] # "unbound"
          /\ cur' = [cur EXCEPT ![c] = "closed"]
          /\ conn' = [conn EXCEPT ![c] = "closed"]
          /\ events' = [events EXCEPT ![c] =
                            @ \o <<Event("cur.close", "none", <<>>),
                                   Event("conn.close", "none", <<>>)>>]
          /\ UNCHANGED <<ret, escaped>>
       \/ /\ cur[c] # "unbound"
          /\ RaiseInFinally(c, <<Event("cur.close", "Exception", <<>>)>>)
          /\ UNCHANGED <<cur, conn>>
       \/ /\ cur[c] # "unbound"
          /\ cur' = [cur EXCEPT ![c] = "closed"]
          /\ RaiseInFinally(c, <<Event("cur.close", "none", <<>>),
                                 Event("conn.close", "Exception", <<>>)>>)
          /\ conn' = conn
    /\ UNCHANGED <<backend, input, query, rows>>

-----------------------------------------------------------------------------
(* Specifications *)

InitCalls(ids) ==
    /\ backend \in Backends
    /\ pc = [c \in ids |-> "idle"]
    /\ input = [c \in ids |-> <<>>]
    /\ query = [c \in ids |-> <<>>]
    /\ conn = [c \in ids |-> "unbound"]
    /\ cur = [c \in ids |-> "unbound"]
    /\ rows = [c \in ids |-> <<>>]
    /\ ret = [c \in ids |-> NoRet]
    /\ escaped = [c \in ids |-> FALSE]
    /\ events = [c \in ids |-> <<>>]

\* The gateway: NumCalls invocations of execute_query, interleaved, against
\* one of the two servers.
Init == InitCalls(1..NumCalls)

Next ==
    \/ \E c \in Calls, q \in GatewayTexts : Call(c, q)
    \/ \E c \in Calls : Validate(c)
    \/ \E c \in Calls : Normalize(c)
    \/ \E c \in Calls : Connect(c)
    \/ \E c \in Calls : Cursor(c)
    \/ \E c \in Calls : SetTimeout(c)
    \/ \E c \in Calls : Execute(c)
    \/ \E c \in Calls : Fetch(c)
    \/ \E c \in Calls : Format(c)
    \/ \E c \in Calls : Finally(c)

Spec == Init /\ [][Next]_vars

\* The validator and the normalizer on every text of Texts: one invocation,
\* followed up to the point where the bounded text would go to the database,
\* or to the return of the "Blocked: " text.
InitFn == InitCalls({1})

NextFn ==
    \/ \E c \in Calls, q \in Texts : Call(c, q)
    \/ \E c \in Calls : Validate(c)
    \/ \E c \in Calls : Normalize(c)
    \/ \E c \in Calls : Finally(c)

SpecFn == InitFn /\ [][NextFn]_vars

-----------------------------------------------------------------------------
(* Vocabulary of the properties *)

\* "Blocked: Only read-only queries allowed"
ExBlockedReadOnly == <<"B","l","o","c","k","e","d",":"," ","O","n","l","y"," ","r","e","a","d","-","o","n","l","y"," ","q","u","e","r","i","e","s"," ","a","l","l","o","w","e","d">>
\* "Blocked: Blocked keyword: UPDATE"
ExBlockedUpdate == <<"B","l","o","c","k","e","d",":"," ","B","l","o","c","k","e","d"," ","k","e","y","w","o","r","d",":"," ","U","P","D","A","T","E">>
\* "Blocked: Blocked keyword: "
ExBlockedKeyword == <<"B","l","o","c","k","e","d",":"," ","B","l","o","c","k","e","d"," ","k","e","y","w","o","r","d",":"," ">>
\* " LIMIT 1000"
ExLimit1000 == <<" ","L","I","M","I","T"," ","1","0","0","0">>
\* "SELECT TOP 1000"
ExSelectTop1000 == <<"S","E","L","E","C","T"," ","T","O","P"," ","1","0","0","0">>
\* "SELECT name FROM employees LIMIT 1000"
ExSelectNamePg == <<"S","E","L","E","C","T"," ","n","a","m","e"," ","F","R","O","M"," ","e","m","p","l","o","y","e","e","s"," ","L","I","M","I","T"," ","1","0","0","0">>
\* "SELECT 1 LIMIT 1000"
ExTerminatorsCut == <<"S","E","L","E","C","T"," ","1"," ","L","I","M","I","T"," ","1","0","0","0">>
\* "SET statement_timeout = " and "SET LOCK_TIMEOUT "
ExPgTimeoutHead == <<"S","E","T"," ","s","t","a","t","e","m","e","n","t","_","t","i","m","e","o","u","t"," ","="," ">>
ExTsqlTimeoutHead == <<"S","E","T"," ","L","O","C","K","_","T","I","M","E","O","U","T"," ">>

\* the directive the pipeline is to issue: 3000 ms for Postgres, 30 s for T-SQL
ExpectedTimeout(b) ==
    IF b = "postgres" THEN ExPgTimeoutHead \o IntToStr(3000)
    ELSE ExTsqlTimeoutHead \o IntToStr(30 * 1000)

\* the trimmed, uppercased text starts with SELECT, WITH, SHOW or EXPLAIN
StartsReadOnly(q) ==
    \E p \in {KW_SELECT, KW_WITH, KW_SHOW, KW_EXPLAIN} : startswith(upper(strip(q)), p)

\* the blocked keywords of backend b occurring in the uppercased text
BlockedIn(b, q) == {w \in DANGEROUS_SQL(b) : Contains(upper(q), w)}

\* s with every trailing ch removed
RECURSIVE WithoutTrailing(_, _)
WithoutTrailing(s, ch) ==
    IF Len(s) > 0 /\ s[Len(s)] = ch
    THEN WithoutTrailing(SubSeq(s, 1, Len(s) - 1), ch)
    ELSE s

\* s with one trailing ch removed, if there is one
WithoutOneTrailing(s, ch) ==
    IF Len(s) > 0 /\ s[Len(s)] = ch THEN SubSeq(s, 1, Len(s) - 1) ELSE s

\* s with the first occurrence of old, whatever its letter case, replaced by new
ReplaceFirstIgnoreCase(s, old, new) ==
    LET at == {i \in 1..(Len(s) - Len(old) + 1) :
                  \A j \in 1..Len(old) : UpperChar(s[i + j - 1]) = UpperChar(old[j])}
    IN  IF at = {} THEN s
        ELSE LET i == CHOOSE i \in at : \A j \in at : i <= j
             IN  SubSeq(s, 1, i - 1) \o new \o SubSeq(s, i + Len(old), Len(s))

Validated(c) == pc[c] \notin {"idle", "validate"}
Rejected(c) ==
    \E i \in DOMAIN events[c] :
        events[c][i].op = "validate_query" /\ events[c][i].raised # "none"
Normalized(c) == pc[c] = "connect"
Ended(c) == pc[c] = "done"

DriverOps == {"connect", "cursor", "execute", "fetchall", "cur.close", "conn.close"}
Did(c, op) == \E i \in DOMAIN events[c] : events[c][i].op = op
Succeeded(c, op) ==
    \E i \in DOMAIN events[c] : events[c][i].op = op /\ events[c][i].raised = "none"
CallsOf(c, op) == Cardinality({i \in DOMAIN events[c] : events[c][i].op = op})

-----------------------------------------------------------------------------
(* Properties *)

\* validate_query and enforce_limit on the texts of the gateway, computed once
GatewayVerdict == [b \in Backends |-> [q \in GatewayTexts |-> validate_query(b, q)]]
GatewayBounded == [b \in Backends |-> [q \in GatewayTexts |-> enforce_limit(b, q)]]

\* C1: a query goes to the driver only after validate_query accepted the
\* caller's text; an invocation whose text validate_query rejects never calls
\* connect, holds no connection and returns a text starting with "Blocked: ".
C1_ValidatedBeforeExecution ==
    \A c \in Calls :
        /\ (\E op \in DriverOps : Did(c, op)) => GatewayVerdict[backend][input[c]] = {}
        /\ (Ended(c) /\ GatewayVerdict[backend][input[c]] # {}) =>
              /\ ~Did(c, "connect")
              /\ conn[c] = "unbound"
              /\ ~escaped[c]
              /\ ret[c].set
              /\ startswith(ret[c].text, PrefixBlocked)

C1_Witness ==
    \E c1, c2 \in Calls :
        /\ Ended(c1) /\ validate_query(backend, input[c1]) # {}
        /\ startswith(ret[c1].text, PrefixBlocked)
        /\ \E i \in DOMAIN events[c2] :
              events[c2][i] = Event("execute", "none", enforce_limit(backend, input[c2]))

\* C2: when an invocation has ended, close was called exactly once on the
\* connection it acquired and exactly once on the cursor it acquired (and
\* never on one it did not acquire), and a connection whose close returned
\* is closed.
C2_ReleasedExactlyOnce ==
    \A c \in Calls :
        Ended(c) =>
            /\ CallsOf(c, "conn.close") = (IF Succeeded(c, "connect") THEN 1 ELSE 0)
            /\ CallsOf(c, "cur.close") = (IF Succeeded(c, "cursor") THEN 1 ELSE 0)
            /\ Succeeded(c, "conn.close") => conn[c] = "closed"
            /\ Succeeded(c, "cur.close") => cur[c] = "closed"

\* C3: an invocation ends by returning a text, never by an exception; the
\* text starts with "Blocked: " exactly when validate_query rejected, and
\* with "Internal error: " when connect, cursor, a statement, fetchall or the
\* formatting raised, whatever the exception class.
C3_ReturnsClassifiedText ==
    \A c \in Calls :
        Ended(c) =>
            /\ ~escaped[c]
            /\ ret[c].set
            /\ startswith(ret[c].text, PrefixBlocked) <=> Rejected(c)
            /\ (\E i \in DOMAIN events[c] :
                    /\ events[c][i].op \in {"connect", "cursor", "execute", "fetchall", "format"}
                    /\ events[c][i].raised # "none")
                => startswith(ret[c].text, PrefixInternal)

\* C4: a text whose trimmed, uppercased form starts with none of SELECT,
\* WITH, SHOW, EXPLAIN is rejected with "Only read-only queries allowed", on
\* both backends, also when it contains a blocked keyword.
C4_PrefixRejection ==
    \A c \in Calls :
        (Validated(c) /\ ~StartsReadOnly(input[c])) =>
            /\ pc[c] \in {"finally", "done"}
            /\ Rejected(c)
            /\ ret[c] = Returning(ExBlockedReadOnly)

C4_Witness ==
    \E c \in Calls :
        /\ Ended(c)
        /\ ~StartsReadOnly(input[c])
        /\ BlockedIn(backend, input[c]) # {}
        /\ ret[c] = Returning(ExBlockedReadOnly)

\* C5: a text with an allowed prefix is rejected when its uppercased form
\* contains a blocked keyword of the backend as a substring, the reason
\* naming a blocked keyword that occurs in it, and accepted otherwise.
C5_KeywordRejection ==
    \A c \in Calls :
        (Validated(c) /\ StartsReadOnly(input[c])) =>
            IF BlockedIn(backend, input[c]) # {}
            THEN /\ pc[c] \in {"finally", "done"}
                 /\ Rejected(c)
                 /\ \E w \in BlockedIn(backend, input[c]) :
                        ret[c] = Returning(ExBlockedKeyword \o w)
            ELSE /\ pc[c] \in {"normalize", "connect"}
                 /\ ~Rejected(c)
                 /\ ~ret[c].set

C5_Witness ==
    \E c \in Calls :
        /\ Ended(c)
        /\ input[c] = ExUpdatedAt
        /\ ret[c] = Returning(ExBlockedUpdate)

\* C6 as stated: `DROP TABLE users;` is rejected and the reason returned to
\* the caller includes DROP.
C6_ReasonNamesDrop ==
    \A c \in Calls :
        (Ended(c) /\ input[c] = ExDropTable) =>
            /\ Rejected(c)
            /\ Contains(ret[c].text, W_DROP)

\* C6 as amended: `DROP TABLE users;` is rejected on its prefix; the caller
\* receives "Blocked: Only read-only queries allowed", which does not name
\* DROP.
C6_DropTableRejectedOnPrefix ==
    \A c \in Calls :
        (Validated(c) /\ input[c] = ExDropTable) =>
            /\ Rejected(c)
            /\ Ended(c) =>
                  /\ ret[c] = Returning(ExBlockedReadOnly)
                  /\ ~Contains(ret[c].text, W_DROP)

C6_Witness ==
    \E c \in Calls :
        /\ Ended(c)
        /\ input[c] = ExDropTable
        /\ Rejected(c)
        /\ ret[c] = Returning(ExBlockedReadOnly)

\* C7: on the T-SQL backend an accepted text without TOP (in any letter
\* case) leaves the normalizer with its first SELECT, in any letter case,
\* replaced by "SELECT TOP 1000".
C7_SelectTopInjected ==
    \A c \in Calls :
        (backend = "tsql" /\ Normalized(c) /\ ~Contains(upper(input[c]), KW_TOP)) =>
            query[c] = ReplaceFirstIgnoreCase(input[c], KW_SELECT, ExSelectTop1000)

\* C8 as stated: on the Postgres backend an accepted text without LIMIT (in
\* any letter case) leaves the normalizer with exactly one trailing ";"
\* removed, if there is one, and " LIMIT 1000" appended.
C8_OneTerminatorStripped ==
    \A c \in Calls :
        (backend = "postgres" /\ Normalized(c) /\ ~Contains(upper(input[c]), KW_LIMIT)) =>
            query[c] = WithoutOneTrailing(input[c], ";") \o ExLimit1000

\* C8 as amended: ... leaves the normalizer with every trailing ";" removed
\* and " LIMIT 1000" appended.
C8_TerminatorsStripped ==
    \A c \in Calls :
        (backend = "postgres" /\ Normalized(c) /\ ~Contains(upper(input[c]), KW_LIMIT)) =>
            query[c] = WithoutTrailing(input[c], ";") \o ExLimit1000

C8_Witness ==
    \E c \in Calls :
        /\ backend = "postgres"
        /\ Normalized(c)
        /\ input[c] = ExTwoTerminators
        /\ query[c] = ExTerminatorsCut

\* C9: the Postgres enforce_limit is idempotent, on every text and on the
\* text the pipeline has normalized, and returns a text that contains LIMIT
\* (in any letter case) unchanged.
C9_SuffixIdempotent ==
    \A c \in Calls :
        /\ pc[c] # "idle" =>
              /\ enforce_limit_pg(enforce_limit_pg(input[c])) = enforce_limit_pg(input[c])
              /\ Contains(upper(input[c]), KW_LIMIT) => enforce_limit_pg(input[c]) = input[c]
        /\ (backend = "postgres" /\ Normalized(c)) =>
              /\ enforce_limit_pg(query[c]) = query[c]
              /\ Contains(upper(input[c]), KW_LIMIT) => query[c] = input[c]

C9_Witness ==
    \E c \in Calls :
        /\ backend = "postgres"
        /\ Normalized(c)
        /\ input[c] = ExSelectName
        /\ query[c] = ExSelectNamePg
        /\ enforce_limit_pg(query[c]) = ExSelectNamePg

\* the steps of the try block up to fetchall, in the order of the pipeline
PipelineOps ==
    <<"validate_query", "enforce_limit", "connect", "cursor", "execute", "execute", "fetchall">>
IsPipelineEvent(e) == e.op \notin {"format", "cur.close", "conn.close"}

\* C10: the steps of an invocation occur in the order validate, normalize,
\* connect, cursor, timeout directive, bounded query, fetchall, each begun
\* only after the one before it returned; so the bounded query is executed
\* only after the timeout directive (3000 ms on Postgres, 30 s on T-SQL)
\* returned on the same cursor, and not at all when the directive raised.
C10_PipelineOrder ==
    \A c \in Calls :
        LET steps == SelectSeq(events[c], IsPipelineEvent)
        IN  /\ Len(steps) <= Len(PipelineOps)
            /\ \A i \in DOMAIN steps :
                  /\ steps[i].op = PipelineOps[i]
                  /\ i < Len(steps) => steps[i].raised = "none"
            /\ Len(steps) >= 5 => steps[5].arg = ExpectedTimeout(backend)
            /\ Len(steps) >= 6 => steps[6].arg = GatewayBounded[backend][input[c]]

C10_Witness ==
    \E c \in Calls :
        /\ Ended(c)
        /\ Succeeded(c, "fetchall")
        /\ events[c][5] = Event("execute", "none", ExpectedTimeout(backend))
        /\ events[c][6] = Event("execute", "none", enforce_limit(backend, input[c]))

====
